---- MODULE Spec2Model ----
(***************************************************************************)
(* cprompt: rendering of a shell prompt from a build-time catalog of       *)
(* prompt elements (src/user_config.h).  Every resolver is modelled as an  *)
(* operator on the process state (errno, heap, log of free calls) and the  *)
(* responses of the operating system during that invocation.               *)
(*                                                                         *)
(* Text is a sequence of strings.  Paths, host names and error names are   *)
(* spelled character by character; string constants of the program         *)
(* ("!MALLOC!", " ", strftime output) are one-element sequences.           *)
(***************************************************************************)
EXTENDS Integers, Sequences, FiniteSets

VARIABLES prompt, config, pc, i, elements, container, errno, heap, brk,
          freed, out, resp, errnos, fe_call, hd_call, allocfail

vars == <<prompt, config, pc, i, elements, container, errno, heap, brk,
          freed, out, resp, errnos, fe_call, hd_call, allocfail>>

(***************************************************************************)
(* Bounds of the model.                                                    *)
(***************************************************************************)
\* longest catalog enumerated exhaustively (besides the shipped catalog)
MaxLen == 1
\* size of the pwd buffer of get_pwd_tilde (limits.h PATH_MAX, scaled down)
PATH_MAX == 18

(***************************************************************************)
(* Program constants.                                                      *)
(***************************************************************************)
HOME_DIR_FAILED_MESSAGE_NO_ALLOC == -2
HOME_DIR_FAILED_MESSAGE_ALLOC == -1
HOME_DIR_NO_ALLOC == 0
HOME_DIR_ALLOC == 1

(***************************************************************************)
(* C strings.                                                              *)
(***************************************************************************)
NUL == "\\0"
GARBAGE == "?"

Min(a, b) == IF a < b THEN a ELSE b

Take(s, n) == IF n <= 0 THEN <<>> ELSE SubSeq(s, 1, Min(n, Len(s)))

strnlen(s, maxlen) == Min(Len(s), maxlen)

\* strlcpy(dst, src, size): dst becomes src cut to size - 1 characters
strlcpy(src, size) == Take(src, size - 1)

\* strlcat(dst, src, size): appends what still fits in size - 1 characters
strlcat(dst, src, size) ==
    IF Len(dst) >= size THEN dst ELSE dst \o Take(src, size - Len(dst) - 1)

\* index (from 1) of the first occurrence of little in big, 0 when absent;
\* an empty little is found at the start
strnstr(big, little) ==
    LET hits == {k \in 1..(Len(big) + 1) :
                    /\ k + Len(little) - 1 <= Len(big)
                    /\ SubSeq(big, k, k + Len(little) - 1) = little}
    IN IF hits = {} THEN 0 ELSE CHOOSE k \in hits : \A h \in hits : k <= h

\* the part of a host name before its first dot (strchr + *dot = 0)
UpToDot(s) ==
    LET dots == {k \in 1..Len(s) : s[k] = "."}
    IN IF dots = {} THEN s
       ELSE SubSeq(s, 1, (CHOOSE k \in dots : \A d \in dots : k <= d) - 1)

\* basename_r(path, buf) of libgen: trailing slashes dropped, then the last
\* component; "/" for a path of slashes only and "." for the empty path
RECURSIVE StripSlashes(_)
StripSlashes(s) ==
    IF Len(s) > 0 /\ s[Len(s)] = "/" THEN StripSlashes(SubSeq(s, 1, Len(s) - 1))
    ELSE s

basename_r(path) ==
    LET t == StripSlashes(path)
        sl == {k \in 1..Len(t) : t[k] = "/"}
        last == IF sl = {} THEN 0 ELSE CHOOSE k \in sl : \A d \in sl : d <= k
    IN IF path = <<>> THEN <<".">>
       ELSE IF t = <<>> THEN <<"/">>
       ELSE SubSeq(t, last + 1, Len(t))

(***************************************************************************)
(* Pointers and string values.                                             *)
(***************************************************************************)
NULL == [region |-> "null", addr |-> 0]
StaticPtr == [region |-> "static", addr |-> 0]
EnvironPtr == [region |-> "environ", addr |-> 0]
HeapPtr(a) == [region |-> "heap", addr |-> a]

Static(s) == [ptr |-> StaticPtr, txt |-> <<s>>]
OnHeap(a, t) == [ptr |-> HeapPtr(a), txt |-> t]
NullStr == [ptr |-> NULL, txt |-> <<>>]

(***************************************************************************)
(* errno values and their canonical names (strerrorname_np).               *)
(***************************************************************************)
ENONE == "0"

ErrnoOf(call) ==
    CASE call = "time" -> "EOVERFLOW"
      [] call = "sysconf" -> "EINVAL"
      [] call = "gethostname" -> "EINVAL"
      [] call = "isatty" -> "ENOTTY"
      [] call = "ttyname" -> "ENOTTY"
      [] call = "basename_r" -> "ENAMETOOLONG"
      [] call = "proc_pidpath" -> "ESRCH"
      [] call = "getpwuid_r" -> "EIO"
      [] call = "getcwd" -> "ENOENT"
      [] call = "malloc" -> "ENOMEM"

strerrorname_np(e) ==
    CASE e = ENONE -> <<"0">>
      [] e = "ERANGE" -> <<"E","R","A","N","G","E">>
      [] e = "EOVERFLOW" -> <<"E","O","V","E","R","F","L","O","W">>
      [] e = "EINVAL" -> <<"E","I","N","V","A","L">>
      [] e = "ENOTTY" -> <<"E","N","O","T","T","Y">>
      [] e = "ENAMETOOLONG" -> <<"E","N","A","M","E","T","O","O","L","O","N","G">>
      [] e = "ESRCH" -> <<"E","S","R","C","H">>
      [] e = "EIO" -> <<"E","I","O">>
      [] e = "ENOENT" -> <<"E","N","O","E","N","T">>
      [] e = "ENOMEM" -> <<"E","N","O","M","E","M">>

(***************************************************************************)
(* Process state threaded through one resolver invocation: errno, the set  *)
(* of live heap blocks, the next fresh address, the log of free() calls,   *)
(* whether the process died, and what the invocation did (the call of      *)
(* format_error, the call of get_home_dir, the allocations that failed).   *)
(***************************************************************************)
NoFe == [called |-> FALSE, err_str |-> "", err |-> ENONE, alloc_ok |-> FALSE,
         str |-> NullStr, needs_free |-> FALSE]
NoHd == [called |-> FALSE, status |-> HOME_DIR_NO_ALLOC, ret |-> NullStr]

Machine(e, h, b, f) ==
    [errno |-> e, heap |-> h, brk |-> b, freed |-> f, crashed |-> FALSE,
     fe |-> NoFe, hd |-> NoHd, allocfail |-> {}]

SetErrno(m, call) == [m EXCEPT !.errno = ErrnoOf(call)]

\* malloc (and the allocation inside strndup): a fresh block, or NULL with
\* errno = ENOMEM; site names the allocation for the record of failures
malloc(m, ok, site) ==
    IF ok
    THEN [ptr |-> HeapPtr(m.brk),
          m |-> [m EXCEPT !.heap = @ \cup {m.brk}, !.brk = @ + 1]]
    ELSE [ptr |-> NULL,
          m |-> [m EXCEPT !.errno = ErrnoOf("malloc"),
                          !.allocfail = @ \cup {site}]]

\* free(p): logged with whether p was a live heap block at that moment
free(m, p) ==
    [m EXCEPT !.freed = Append(@, [ptr |-> p,
                                   live |-> p.region = "heap" /\ p.addr \in m.heap]),
              !.heap = @ \ {p.addr}]

BoolInt(b) == IF b THEN 1 ELSE 0

(***************************************************************************)
(* malloc_or_error, src/user_config.h:129-137                              *)
(***************************************************************************)
malloc_or_error(m, ps, ok) ==
    LET Checked(a) ==
            IF a.ptr = NULL
            THEN [ptr |-> NULL, m |-> a.m,
                  ps |-> [str |-> Static("!MALLOC!"), needs_free |-> FALSE]]
            ELSE [ptr |-> a.ptr, m |-> a.m, ps |-> ps]
    IN Checked(malloc(m, ok, "malloc_or_error"))

\* ps->str = malloc_or_error(ps, size), lines 191, 235, 283, 306, 463: the
\* value returned is stored into ps->str after the call, so on failure the
\* NULL it returns replaces the !MALLOC! written at line 134; needs_free
\* stays as malloc_or_error left it
Assigned(a, str) == [a.ps EXCEPT !.str = str]

(***************************************************************************)
(* format_error, src/user_config.h:146-167                                 *)
(***************************************************************************)
\* the result of format_error, noted in the process state
FeRet(m, err_str, err, alloc_ok, str, needs_free) ==
    [str |-> str, needs_free |-> needs_free,
     m |-> [m EXCEPT !.fe = [called |-> TRUE, err_str |-> err_str, err |-> err,
                             alloc_ok |-> alloc_ok, str |-> str,
                             needs_free |-> needs_free]]]

format_error(m, err_str, err, r) ==
    IF config.HAVE_STRERRORNAME_NP
    THEN LET Built(a, length) ==
                IF a.ptr = NULL
                THEN FeRet(a.m, err_str, err, FALSE, Static(err_str), FALSE)
                ELSE FeRet(a.m, err_str, err, TRUE,
                           OnHeap(a.ptr.addr,
                                  strlcat(strlcat(strlcpy(<<"!">>, length),
                                                  strerrorname_np(err), length),
                                          <<"!">>, length)),
                           TRUE)
         IN Built(malloc(m, r.fe_malloc, "format_error"),
                  2 + strnlen(strerrorname_np(err), 20))
    ELSE FeRet(m, err_str, err, FALSE, Static(err_str), FALSE)

\* a resolver's result: the prompt_string it filled in and the process state
Ret(ps, m) == [str |-> ps.str, needs_free |-> ps.needs_free, m |-> m]

\* a failed system call: errno set, then ps->str = format_error(token, errno,
\* &ps->needs_free)
Failure(m, call, err_str, r) ==
    format_error(SetErrno(m, call), err_str, ErrnoOf(call), r)

(***************************************************************************)
(* get_formatted_time, src/user_config.h:175-204                           *)
(***************************************************************************)
\* what strftime writes for the format strings of make_exploded_prompt
strftime(fmt) ==
    CASE fmt = "%a %b %d" -> <<"Tue May 26">>
      [] fmt = "%H:%M:%S" -> <<"14:32:14">>
      [] fmt = "%I:%M:%S" -> <<"02:32:14">>
      [] fmt = "%I:%M %p" -> <<"02:32 PM">>
      [] fmt = "%H:%M" -> <<"14:32">>
      [] OTHER -> <<"2024">>

\* get_formatted_time without line 199: the flag stays set after free
get_formatted_time_keepflag(m, fmt, r) ==
    IF ~r.time
    THEN Failure(m, "time", "!TIME!", r)
    ELSE LET Formatted(a) ==
                IF a.ptr = NULL THEN Ret(Assigned(a, NullStr), a.m)
                ELSE IF ~r.strftime
                THEN Ret([str |-> Static("!STRFTIME!"), needs_free |-> TRUE],
                         free(a.m, a.ptr))
                ELSE Ret([str |-> OnHeap(a.ptr.addr, strftime(fmt)),
                          needs_free |-> TRUE], a.m)
         IN Formatted(malloc_or_error(m, [str |-> NullStr, needs_free |-> TRUE],
                                      r.malloc))

get_formatted_time(m, fmt, r) ==
    IF ~r.time
    THEN Failure(m, "time", "!TIME!", r)
    ELSE LET Formatted(a) ==
                IF a.ptr = NULL THEN Ret(Assigned(a, NullStr), a.m)
                ELSE IF ~r.strftime
                THEN Ret([str |-> Static("!STRFTIME!"), needs_free |-> FALSE],
                         free(a.m, a.ptr))
                ELSE Ret([str |-> OnHeap(a.ptr.addr, strftime(fmt)),
                          needs_free |-> TRUE], a.m)
         IN Formatted(malloc_or_error(m, [str |-> NullStr, needs_free |-> TRUE],
                                      r.malloc))

(***************************************************************************)
(* get_hostname, src/user_config.h:213-255                                 *)
(***************************************************************************)
\* sysconf: succeeds, fails leaving errno alone (no such limit), or fails
\* setting errno
sysconf(m, r) == IF r.sysconf = "errno" THEN SetErrno(m, "sysconf") ELSE m

get_hostname(m, to_dot, r) ==
    LET Queried(errno_temp, m1) ==
            IF m1.errno = errno_temp
            THEN Ret([str |-> Static("!NOHOSTNAMEMAX!"), needs_free |-> FALSE], m1)
            ELSE format_error(m1, "!SYSCONF!", m1.errno, r)
        Fetched(a) ==
            IF a.ptr = NULL THEN Ret(Assigned(a, NullStr), a.m)
            ELSE IF ~r.gethostname
            THEN Failure(free(a.m, a.ptr), "gethostname", "!GETHOSTNAME!", r)
            ELSE Ret([str |-> OnHeap(a.ptr.addr,
                                 IF to_dot THEN UpToDot(r.hostname) ELSE r.hostname),
                      needs_free |-> TRUE], a.m)
    IN IF r.sysconf # "ok"
       THEN Queried(m.errno, sysconf(m, r))
       ELSE Fetched(malloc_or_error(m, [str |-> NullStr, needs_free |-> TRUE],
                                    r.malloc))

(***************************************************************************)
(* get_tty_basename, src/user_config.h:262-293                             *)
(***************************************************************************)
\* get_tty_basename returning tty, the storage ttyname owns, in place of the
\* buffer basename_r filled
get_tty_basename_returns_tty(m, r) ==
    IF ~r.isatty THEN Failure(m, "isatty", "!ISATTY!", r)
    ELSE IF ~r.ttyname THEN Failure(m, "ttyname", "!TTYNAME!", r)
    ELSE LET Named(a) ==
                IF a.ptr = NULL THEN Ret(Assigned(a, NullStr), a.m)
                ELSE IF ~r.basename_r
                THEN Failure(free(a.m, a.ptr), "basename_r", "!BASENAMER!", r)
                ELSE Ret([str |-> [ptr |-> StaticPtr, txt |-> r.tty],
                          needs_free |-> TRUE], a.m)
         IN Named(malloc_or_error(m, [str |-> NullStr, needs_free |-> TRUE],
                                  r.malloc))

get_tty_basename(m, r) ==
    IF ~r.isatty THEN Failure(m, "isatty", "!ISATTY!", r)
    ELSE IF ~r.ttyname THEN Failure(m, "ttyname", "!TTYNAME!", r)
    ELSE LET Named(a) ==
                IF a.ptr = NULL THEN Ret(Assigned(a, NullStr), a.m)
                ELSE IF ~r.basename_r
                THEN Failure(free(a.m, a.ptr), "basename_r", "!BASENAMER!", r)
                ELSE Ret([str |-> OnHeap(a.ptr.addr, basename_r(r.tty)),
                          needs_free |-> TRUE], a.m)
         IN Named(malloc_or_error(m, [str |-> NullStr, needs_free |-> TRUE],
                                  r.malloc))

(***************************************************************************)
(* get_parent_name, src/user_config.h:300-328                              *)
(***************************************************************************)
get_parent_name(m, r) ==
    LET Looked(a) ==
            IF a.ptr = NULL THEN Ret(Assigned(a, NullStr), a.m)
            ELSE IF config.APPLE
            THEN IF ~r.proc_pidpath
                 THEN Failure(free(a.m, a.ptr), "proc_pidpath", "!PROCPIDPATH!", r)
                 ELSE Ret([str |-> OnHeap(a.ptr.addr, r.parent),
                           needs_free |-> TRUE], a.m)
            ELSE Ret([str |-> Static("!NOPROC!"), needs_free |-> FALSE],
                     free(a.m, a.ptr))
    IN Looked(malloc_or_error(m, [str |-> NullStr, needs_free |-> TRUE], r.malloc))

(***************************************************************************)
(* get_username, src/user_config.h:335-376                                 *)
(***************************************************************************)
get_username(m, r) ==
    LET Sized(status, m1) ==
            IF status = m1.errno
            THEN Ret([str |-> Static("!NOGETPWRSIZEMAX!"), needs_free |-> FALSE], m1)
            ELSE format_error(m1, "!SYSCONF!", m1.errno, r)
        Duplicated(buf, d) ==
            IF d.ptr = NULL
            THEN Ret([str |-> Static("!STRNDUP!"), needs_free |-> FALSE],
                     free(d.m, buf))
            ELSE Ret([str |-> OnHeap(d.ptr.addr, Take(r.pw_name, PATH_MAX + 1)),
                      needs_free |-> TRUE],
                     free(d.m, buf))
        LookedUp(a) ==
            IF a.ptr = NULL THEN Ret(a.ps, a.m)
            ELSE IF r.getpwuid_r = "err"
            THEN Failure(free(a.m, a.ptr), "getpwuid_r", "!GETPWUIDR!", r)
            ELSE IF r.getpwuid_r = "notfound"
            THEN Ret([str |-> Static("nobody"), needs_free |-> FALSE],
                     free(a.m, a.ptr))
            ELSE Duplicated(a.ptr, malloc(a.m, r.strndup, "strndup"))
    IN IF r.sysconf # "ok"
       THEN Sized(m.errno, sysconf(m, r))
       ELSE LookedUp(malloc_or_error(m, [str |-> NullStr, needs_free |-> FALSE],
                                     r.malloc))

(***************************************************************************)
(* get_home_dir, src/user_config.h:384-427                                 *)
(***************************************************************************)
HdRet(status, ret, m) ==
    [status |-> status, ret |-> ret,
     m |-> [m EXCEPT !.hd = [called |-> TRUE, status |-> status, ret |-> ret]]]

get_home_dir(m, r) ==
    LET \* *ret = format_error(...); return err_free - 2;
        Formatted(f) == HdRet(BoolInt(f.needs_free) - 2, f.str, f.m)
        Sized(status, m1) ==
            IF status = m1.errno
            THEN HdRet(HOME_DIR_NO_ALLOC, Static("!NOGETPWRSIZEMAX!"), m1)
            ELSE Formatted(format_error(m1, "!SYSCONF!", m1.errno, r))
        Duplicated(d) ==
            IF d.ptr = NULL
            THEN HdRet(HOME_DIR_FAILED_MESSAGE_NO_ALLOC, Static("!STRNDUP!"), d.m)
            ELSE HdRet(HOME_DIR_ALLOC,
                       OnHeap(d.ptr.addr, Take(r.pw_dir, PATH_MAX + 1)), d.m)
        LookedUp(pwbuf) ==
            IF pwbuf.ptr = NULL
            THEN HdRet(HOME_DIR_FAILED_MESSAGE_NO_ALLOC, Static("!MALLOC!"), pwbuf.m)
            ELSE IF r.getpwuid_r = "err"
            THEN Formatted(Failure(pwbuf.m, "getpwuid_r", "!GETPWUIDR!", r))
            ELSE IF r.getpwuid_r = "notfound"
            THEN HdRet(HOME_DIR_NO_ALLOC, Static("!USERNOTFOUND!"), pwbuf.m)
            ELSE Duplicated(malloc(pwbuf.m, r.strndup, "strndup"))
    IN IF r.homeset
       THEN HdRet(HOME_DIR_NO_ALLOC, [ptr |-> EnvironPtr, txt |-> r.home], m)
       ELSE IF r.sysconf # "ok"
       THEN Sized(m.errno, sysconf(m, r))
       ELSE LookedUp(malloc(m, r.pwbuf_malloc, "pwbuf"))

(***************************************************************************)
(* get_pwd_tilde, src/user_config.h:435-474                                *)
(***************************************************************************)
\* char pwd[PATH_MAX] after getcwd: the path, its terminator, then whatever
\* the stack held
PwdBuffer(cwd) ==
    [k \in 0..(PATH_MAX - 1) |->
        IF k < Len(cwd) THEN cwd[k + 1]
        ELSE IF k = Len(cwd) THEN NUL ELSE GARBAGE]

\* the C string held in a buffer: the characters before the first NUL
CStr(buf) ==
    LET Upto(nuls) ==
            [k \in 1..(IF nuls = {} THEN Cardinality(DOMAIN buf)
                       ELSE CHOOSE z \in nuls : \A y \in nuls : z <= y)
                |-> buf[k - 1]]
    IN Upto({k \in DOMAIN buf : buf[k] = NUL})

\* for (match = pwd + 1; *(match + len); match++) *match = *(match + len);
\* *match = 0;   oob: an access outside pwd or a read of what getcwd left
\* unwritten
RECURSIVE TildeLoop(_, _, _)
TildeLoop(pwd, match, len) ==
    IF (match + len) \notin DOMAIN pwd \/ match \notin DOMAIN pwd
    THEN [pwd |-> pwd, oob |-> TRUE]
    ELSE IF pwd[match + len] = GARBAGE
    THEN [pwd |-> pwd, oob |-> TRUE]
    ELSE IF pwd[match + len] # NUL
    THEN TildeLoop([pwd EXCEPT ![match] = pwd[match + len]], match + 1, len)
    ELSE [pwd |-> [pwd EXCEPT ![match] = NUL], oob |-> FALSE]

\* lines 451-458 with len = strnlen(home) instead of strnlen(home) - 1
TildeCollapse_offbyone(pwd, home) ==
    IF strnstr(CStr(pwd), home) = 1
    THEN TildeLoop([pwd EXCEPT ![0] = "~"], 1, strnlen(home, PATH_MAX))
    ELSE [pwd |-> pwd, oob |-> FALSE]

\* lines 451-458: the home prefix of pwd replaced by a tilde, in place
TildeCollapse(pwd, home) ==
    IF strnstr(CStr(pwd), home) = 1
    THEN TildeLoop([pwd EXCEPT ![0] = "~"], 1, strnlen(home, PATH_MAX) - 1)
    ELSE [pwd |-> pwd, oob |-> FALSE]

\* lines 461-473: the copy into a fresh buffer, or the basename
PwdCopy(m, pwd, base, r) ==
    LET Copied(a) ==
            IF a.ptr = NULL THEN Ret(Assigned(a, NullStr), a.m)
            ELSE IF base /\ ~r.basename_r
            THEN Failure(free(a.m, a.ptr), "basename_r", "!BASENAMER!", r)
            ELSE Ret([str |-> OnHeap(a.ptr.addr, strlcpy(CStr(pwd), PATH_MAX)),
                      needs_free |-> TRUE], a.m)
    IN Copied(malloc_or_error(m, [str |-> NullStr, needs_free |-> TRUE], r.malloc))

get_pwd_tilde(m, base, r) ==
    LET Collapsed(h, t) ==
            IF t.oob
            THEN Ret([str |-> NullStr, needs_free |-> FALSE],
                     [h.m EXCEPT !.crashed = TRUE])
            ELSE PwdCopy(IF h.status = HOME_DIR_ALLOC THEN free(h.m, h.ret.ptr)
                         ELSE h.m,
                         t.pwd, base, r)
        Homed(h) ==
            IF h.status < 0
            THEN Ret([str |-> h.ret, needs_free |-> (h.status + 2) # 0], h.m)
            ELSE Collapsed(h, TildeCollapse(PwdBuffer(r.cwd), h.ret.txt))
    IN IF ~r.getcwd \/ Len(r.cwd) + 1 > PATH_MAX
       THEN Failure(m, "getcwd", "!GETCWD!", r)
       ELSE Homed(get_home_dir(m, r))

(***************************************************************************)
(* The catalog, src/user_config.h:21-33 and 59-101                         *)
(***************************************************************************)
Elem(t) == [type |-> t, arg |-> ""]
Lit(s) == [type |-> "StringLiteral", arg |-> s]

\* static const PromptElement prompt[], as shipped
DefaultPrompt ==
    << Lit("\\033[1;32m"), Elem("Username"), Lit("@"), Elem("HostnameUpToDot"),
       Lit("\\033[1;34m"), Elem("Space"), Elem("PwdTrunc"), Elem("Space"),
       Elem("UserPrompt"), Lit("\\033[0m"), Elem("Space") >>

\* enum PromptElementType, one element per kind
PromptElements ==
    { Lit("hi "), Lit("!"), [type |-> "StrftimeDate", arg |-> "%Y"] } \cup
    { Elem(t) : t \in { "Space", "Bell", "HostnameUpToDot", "FullHostname",
                        "TtyBasename", "ShellName", "WeekMonthDay",
                        "HourMinuteSecond24", "HourMinuteSecond12", "TimeAmPm",
                        "HourMinute24", "Username", "PwdTrunc",
                        "PwdTruncBasename", "UserPrompt" } }

Catalogs ==
    { DefaultPrompt, << Lit("hi "), Elem("Username"), Lit("!") >> } \cup
    UNION { [1..n -> PromptElements] : n \in 1..MaxLen }

(***************************************************************************)
(* make_exploded_prompt's switch, src/user_config.h:495-550                *)
(***************************************************************************)
Resolve(m, e, r) ==
    CASE e.type = "StringLiteral" ->
            Ret([str |-> [ptr |-> [region |-> "literal", addr |-> 0],
                          txt |-> <<e.arg>>],
                 needs_free |-> FALSE], m)
      [] e.type = "Space" -> Ret([str |-> Static(" "), needs_free |-> FALSE], m)
      [] e.type = "Bell" -> Ret([str |-> Static("\\07"), needs_free |-> FALSE], m)
      [] e.type = "WeekMonthDay" -> get_formatted_time(m, "%a %b %d", r)
      [] e.type = "StrftimeDate" -> get_formatted_time(m, e.arg, r)
      [] e.type = "HourMinuteSecond24" -> get_formatted_time(m, "%H:%M:%S", r)
      [] e.type = "HourMinuteSecond12" -> get_formatted_time(m, "%I:%M:%S", r)
      [] e.type = "TimeAmPm" -> get_formatted_time(m, "%I:%M %p", r)
      [] e.type = "HourMinute24" -> get_formatted_time(m, "%H:%M", r)
      [] e.type = "HostnameUpToDot" -> get_hostname(m, TRUE, r)
      [] e.type = "FullHostname" -> get_hostname(m, FALSE, r)
      [] e.type = "TtyBasename" -> get_tty_basename(m, r)
      [] e.type = "ShellName" -> get_parent_name(m, r)
      [] e.type = "Username" -> get_username(m, r)
      [] e.type = "PwdTrunc" -> get_pwd_tilde(m, FALSE, r)
      [] e.type = "PwdTruncBasename" -> get_pwd_tilde(m, TRUE, r)
      [] e.type = "UserPrompt" ->
            Ret([str |-> Static(IF r.euid = 0 THEN "#" ELSE "$"),
                 needs_free |-> FALSE], m)

(***************************************************************************)
(* Responses of the operating system to one resolver invocation.  Only     *)
(* the calls a resolver reaches are varied.                                *)
(***************************************************************************)
HomeAlice == <<"/","h","o","m","e","/","a","l","i","c","e">>
HomeAl == <<"/","h","o","m","e","/","a","l">>
Proj == HomeAlice \o <<"/","p","r","o","j">>
Etc == <<"/","e","t","c">>
DevPts3 == <<"/","d","e","v","/","p","t","s","/","3">>
DevTtyS0 == <<"/","d","e","v","/","t","t","y","S","0">>

Cwds == { Proj, Etc, HomeAlice }
Homes == { HomeAlice, HomeAl, <<"/">>, <<>> }

Ok == [time |-> TRUE, malloc |-> TRUE, fe_malloc |-> TRUE, strftime |-> TRUE,
       sysconf |-> "ok", gethostname |-> TRUE,
       hostname |-> <<"h","o","s","t",".","l","a","n">>,
       isatty |-> TRUE, ttyname |-> TRUE, tty |-> DevPts3, basename_r |-> TRUE,
       proc_pidpath |-> TRUE, parent |-> <<"/bin/zsh">>,
       getpwuid_r |-> "ok", pw_name |-> <<"bob">>, pw_dir |-> HomeAlice,
       strndup |-> TRUE, pwbuf_malloc |-> TRUE, getcwd |-> TRUE, cwd |-> Etc,
       homeset |-> TRUE, home |-> HomeAlice, euid |-> 1000]

\* responses that reach format_error: its malloc succeeds or fails
Fe(rs) ==
    IF config.HAVE_STRERRORNAME_NP
    THEN rs \cup { [x EXCEPT !.fe_malloc = FALSE] : x \in rs }
    ELSE rs

TimeResponses ==
    { Ok, [Ok EXCEPT !.malloc = FALSE], [Ok EXCEPT !.strftime = FALSE] } \cup
    Fe({ [Ok EXCEPT !.time = FALSE] })

HostResponses ==
    { Ok, [Ok EXCEPT !.sysconf = "unchanged"], [Ok EXCEPT !.malloc = FALSE] } \cup
    Fe({ [Ok EXCEPT !.sysconf = "errno"], [Ok EXCEPT !.gethostname = FALSE] })

TtyResponses ==
    { Ok, [Ok EXCEPT !.tty = DevTtyS0], [Ok EXCEPT !.malloc = FALSE] } \cup
    Fe({ [Ok EXCEPT !.isatty = FALSE], [Ok EXCEPT !.ttyname = FALSE],
         [Ok EXCEPT !.basename_r = FALSE] })

ParentResponses ==
    { Ok, [Ok EXCEPT !.malloc = FALSE] } \cup
    (IF config.APPLE THEN Fe({ [Ok EXCEPT !.proc_pidpath = FALSE] }) ELSE {})

UserResponses ==
    { Ok, [Ok EXCEPT !.sysconf = "unchanged"], [Ok EXCEPT !.malloc = FALSE],
      [Ok EXCEPT !.getpwuid_r = "notfound"], [Ok EXCEPT !.strndup = FALSE] } \cup
    Fe({ [Ok EXCEPT !.sysconf = "errno"], [Ok EXCEPT !.getpwuid_r = "err"] })

NoHome == [Ok EXCEPT !.homeset = FALSE, !.home = <<>>]

\* get_home_dir answers with status >= 0 and get_pwd_tilde goes on
HomeGoes ==
    { [Ok EXCEPT !.home = h] : h \in Homes } \cup
    { NoHome, [NoHome EXCEPT !.sysconf = "unchanged"],
      [NoHome EXCEPT !.getpwuid_r = "notfound"] }

\* get_home_dir answers with a failure status and get_pwd_tilde returns
HomeStops ==
    { [NoHome EXCEPT !.pwbuf_malloc = FALSE], [NoHome EXCEPT !.strndup = FALSE] } \cup
    Fe({ [NoHome EXCEPT !.sysconf = "errno"], [NoHome EXCEPT !.getpwuid_r = "err"] })

PwdResponses(base) ==
    Fe({ [Ok EXCEPT !.getcwd = FALSE] }) \cup
    UNION { { [h EXCEPT !.cwd = w] : h \in HomeStops \cup HomeGoes } \cup
            { [h EXCEPT !.cwd = w, !.malloc = FALSE] : h \in HomeGoes } \cup
            (IF base
             THEN Fe({ [h EXCEPT !.cwd = w, !.basename_r = FALSE] : h \in HomeGoes })
             ELSE {})
          : w \in Cwds }

Responses(e) ==
    CASE e.type \in { "StringLiteral", "Space", "Bell" } -> { Ok }
      [] e.type = "UserPrompt" -> { Ok, [Ok EXCEPT !.euid = 0] }
      [] e.type \in { "WeekMonthDay", "StrftimeDate", "HourMinuteSecond24",
                      "HourMinuteSecond12", "TimeAmPm", "HourMinute24" } ->
            TimeResponses
      [] e.type \in { "HostnameUpToDot", "FullHostname" } -> HostResponses
      [] e.type = "TtyBasename" -> TtyResponses
      [] e.type = "ShellName" -> ParentResponses
      [] e.type = "Username" -> UserResponses
      [] e.type = "PwdTrunc" -> PwdResponses(FALSE)
      [] e.type = "PwdTruncBasename" -> PwdResponses(TRUE)

(***************************************************************************)
(* The program.                                                            *)
(***************************************************************************)
Init ==
    /\ prompt \in Catalogs
    /\ config \in [HAVE_STRERRORNAME_NP : BOOLEAN, APPLE : BOOLEAN]
    /\ pc = "make"
    /\ i = 0
    /\ elements = <<>>
    /\ container = NULL
    /\ errno = ENONE
    /\ heap = {}
    /\ brk = 1
    /\ freed = <<>>
    /\ out = <<>>
    /\ resp = Ok
    /\ errnos = <<>>
    /\ fe_call = NoFe
    /\ hd_call = NoHd
    /\ allocfail = {}

\* make_exploded_prompt, lines 490-491: the array of prompt_string.  The
\* result of malloc is not tested: the first store through NULL ends the
\* process.
MakeExplodedPrompt ==
    /\ pc = "make"
    /\ \E ok \in BOOLEAN :
          LET Allocated(a) ==
                /\ container' = a.ptr
                /\ errno' = a.m.errno
                /\ heap' = a.m.heap
                /\ brk' = a.m.brk
                /\ pc' = IF a.ptr = NULL THEN "crashed" ELSE "resolve"
          IN Allocated(malloc(Machine(errno, heap, brk, freed), ok, "elements"))
    /\ UNCHANGED <<prompt, config, i, elements, freed, out, resp, errnos,
                   fe_call, hd_call, allocfail>>

\* make_exploded_prompt, lines 493-551: one iteration of the loop
Resolved(r, res) ==
    /\ resp' = r
    /\ errnos' = Append(errnos, errno)
    /\ fe_call' = res.m.fe
    /\ hd_call' = res.m.hd
    /\ allocfail' = res.m.allocfail
    /\ errno' = res.m.errno
    /\ heap' = res.m.heap
    /\ brk' = res.m.brk
    /\ freed' = res.m.freed
    /\ IF res.m.crashed
       THEN /\ pc' = "crashed"
            /\ UNCHANGED <<i, elements>>
       ELSE /\ elements' = Append(elements,
                   [str |-> res.str, needs_free |-> res.needs_free])
            /\ i' = i + 1
            /\ pc' = IF i + 1 = Len(prompt) THEN "print" ELSE "resolve"

ResolveElement ==
    /\ pc = "resolve"
    /\ i < Len(prompt)
    /\ \E r \in Responses(prompt[i + 1]) :
          Resolved(r, Resolve(Machine(errno, heap, brk, freed), prompt[i + 1], r))
    /\ UNCHANGED <<prompt, config, container, out>>

\* main, lines 576-581.  printf("%s") of a fragment whose str is NULL is
\* undefined: the C library writes a placeholder, or the process dies
\* (a build may call puts for "%s\n") with what it wrote still unflushed.
Text(s) == IF s.ptr = NULL THEN <<"(null)">> ELSE s.txt

RECURSIVE Printed(_, _)
Printed(es, k) ==
    IF k > Len(es) THEN <<>>
    ELSE Text(es[k].str) \o (IF k = Len(es) THEN <<"\n">> ELSE <<>>)
         \o Printed(es, k + 1)

main ==
    /\ pc = "print"
    /\ \E survives \in BOOLEAN :
          IF survives \/ \A k \in 1..Len(elements) : elements[k].str.ptr # NULL
          THEN /\ out' = out \o Printed(elements, 1)
               /\ pc' = "free"
          ELSE /\ out' = out
               /\ pc' = "crashed"
    /\ UNCHANGED <<prompt, config, i, elements, container, errno, heap, brk,
                   freed, resp, errnos, fe_call, hd_call, allocfail>>

\* exploded_prompt_free, lines 562-569
RECURSIVE FreeAll(_, _, _)
FreeAll(m, es, k) ==
    IF k > Len(es) THEN m
    ELSE FreeAll(IF es[k].needs_free THEN free(m, es[k].str.ptr) ELSE m, es, k + 1)

exploded_prompt_free ==
    /\ pc = "free"
    /\ LET Released(m) ==
                /\ heap' = m.heap
                /\ freed' = m.freed
       IN Released(free(FreeAll(Machine(errno, heap, brk, freed), elements, 1),
                        container))
    /\ pc' = "done"
    /\ UNCHANGED <<prompt, config, i, elements, container, errno, brk, out,
                   resp, errnos, fe_call, hd_call, allocfail>>

Next == MakeExplodedPrompt \/ ResolveElement \/ main \/ exploded_prompt_free

Spec == Init /\ [][Next]_vars

(***************************************************************************)
(* Properties.                                                             *)
(***************************************************************************)
\* a resolver has returned into make_exploded_prompt: elements[i] is the
\* fragment it filled in, resp what the system answered, errnos[i] the
\* errno it started with
Returned == pc \in { "resolve", "print", "free", "done" } /\ i >= 1

Last == elements[i]

Count(log, p) == Cardinality({ k \in 1..Len(log) : log[k].ptr = p })

IsPrefix(h, w) == Len(h) <= Len(w) /\ SubSeq(w, 1, Len(h)) = h

RECURSIVE Joined(_)
Joined(es) ==
    IF es = <<>> THEN <<>>
    ELSE Joined(SubSeq(es, 1, Len(es) - 1)) \o es[Len(es)].str.txt

\* the fragment the resolver of element k gives under the responses resp
\* when it starts with errno e
Shown(res) == [txt |-> res.str.txt, needs_free |-> res.needs_free]

FragmentFrom(k, e) == Shown(Resolve(Machine(e, {}, brk, <<>>), prompt[k], resp))

Fragment(k) == [txt |-> elements[k].str.txt, needs_free |-> elements[k].needs_free]

\* C1: after make_exploded_prompt and exploded_prompt_free, every fragment
\* whose text is a heap block has needs_free set and its block was passed
\* to free exactly once, every other fragment has needs_free clear and its
\* text was never passed to free, and every call of free got a live block.
C1_ReleasedExactlyOwned ==
    pc = "done" =>
        /\ Len(elements) = Len(prompt)
        /\ \A k \in 1..Len(elements) :
              LET p == elements[k].str.ptr
              IN IF p.region = "heap"
                 THEN elements[k].needs_free /\ Count(freed, p) = 1
                 ELSE ~elements[k].needs_free /\ Count(freed, p) = 0
        /\ \A k \in 1..Len(freed) : freed[k].live

C1_Witness ==
    /\ pc = "done"
    /\ \E j, k \in 1..Len(elements) :
          /\ elements[j].needs_free
          /\ elements[j].str.ptr.region = "heap"
          /\ elements[k].str.txt = <<"!MALLOC!">>
          /\ Count(freed, elements[j].str.ptr) = 1

\* C2: whenever an allocation made while resolving an element fails, the
\* fragment of that element is the borrowed text !MALLOC!.
C2_AnyAllocationFailureIsMalloc ==
    (Returned /\ pc # "done" /\ allocfail # {}) =>
        Last.str = Static("!MALLOC!") /\ ~Last.needs_free

\* C3: make_exploded_prompt gives one fragment per catalog element, and a
\* failure while resolving an element k leaves the fragment of every later
\* element as it would be had element k succeeded (errno as it was before
\* element k, nothing in between having touched it).
C3_FailureChangesOnlyItsFragment ==
    /\ pc \in { "print", "free", "done" } => Len(elements) = Len(prompt)
    /\ pc # "crashed" => Len(elements) = i
    /\ (Returned /\ pc # "done") =>
          \A k \in 1..(i - 1) :
              (errnos[k + 1] # errnos[k] /\ errnos[i] = errnos[k + 1]) =>
                  Fragment(i) = FragmentFrom(i, errnos[k])

\* C4: what main prints is the fragments' texts joined in catalog order and
\* one newline after the last of them.
C4_OutputIsJoinedLine ==
    pc \in { "free", "done" } => out = Joined(elements) \o <<"\n">>

\* C5: the basename variant of the cwd resolver, when getcwd, the home
\* lookup, the allocation and basename_r succeed, gives an owned fragment
\* whose text is the last component of the tilde-collapsed directory.
C5_BasenameOfCwd ==
    (/\ Returned
     /\ pc # "done"
     /\ prompt[i].type = "PwdTruncBasename"
     /\ resp.getcwd /\ resp.malloc /\ resp.basename_r
     /\ hd_call.called /\ hd_call.status >= 0) =>
        /\ Last.needs_free
        /\ Last.str.txt =
              basename_r(CStr(TildeCollapse(PwdBuffer(resp.cwd),
                                            hd_call.ret.txt).pwd))

\* C6: the plain cwd resolver, for a working directory W and a non-empty
\* home H, gives ~ followed by the rest of W when W begins with H, and W
\* itself otherwise.
C6_TildeCollapsedCwd ==
    (/\ Returned
     /\ pc # "done"
     /\ prompt[i].type = "PwdTrunc"
     /\ resp.getcwd /\ resp.malloc
     /\ hd_call.called /\ hd_call.status >= 0
     /\ hd_call.ret.txt # <<>>) =>
        LET W == resp.cwd
            H == hd_call.ret.txt
        IN /\ Last.needs_free
           /\ Last.str.ptr.region = "heap"
           /\ Last.str.txt = IF IsPrefix(H, W)
                             THEN <<"~">> \o SubSeq(W, Len(H) + 1, Len(W))
                             ELSE W

C6_Witness ==
    /\ Returned
    /\ pc # "done"
    /\ prompt[i].type = "PwdTrunc"
    /\ resp.cwd = Proj
    /\ hd_call.called /\ hd_call.ret.txt = HomeAlice
    /\ Last.str.txt = <<"~","/","p","r","o","j">>

\* C7: format_error gives, with strerrorname_np and a successful malloc,
\* the owned text ! name ! ; otherwise the caller's default token, borrowed.
C7_FormatErrorResult ==
    fe_call.called =>
        IF config.HAVE_STRERRORNAME_NP /\ fe_call.alloc_ok
        THEN /\ fe_call.str.txt = <<"!">> \o strerrorname_np(fe_call.err) \o <<"!">>
             /\ fe_call.str.ptr.region = "heap"
             /\ fe_call.needs_free
        ELSE /\ fe_call.str = Static(fe_call.err_str)
             /\ ~fe_call.needs_free

\* C8: when a resolver returns, the heap blocks still allocated are the
\* array of fragments and the texts of the owned fragments, nothing else.
C8_NoScratchBufferLeft ==
    (Returned /\ pc # "done") =>
        heap = { container.addr } \cup
               { elements[k].str.ptr.addr :
                    k \in { j \in 1..Len(elements) : elements[j].needs_free } }

\* C9: get_home_dir's code is a failure code exactly when the text is a
\* diagnostic and not a home directory, and an allocated code exactly when
\* the text is a heap block.
HomeDirs == Homes \cup { Ok.pw_dir }

C9_HomeDirCodeClassifies ==
    hd_call.called =>
        /\ (hd_call.status \in { HOME_DIR_FAILED_MESSAGE_NO_ALLOC,
                                 HOME_DIR_FAILED_MESSAGE_ALLOC })
              <=> (hd_call.ret.txt \notin HomeDirs)
        /\ (hd_call.status \in { HOME_DIR_FAILED_MESSAGE_ALLOC, HOME_DIR_ALLOC })
              <=> (hd_call.ret.ptr.region = "heap")

\* C10: under the same responses of the system, the fragment of an element
\* is the one its resolver gives when it is the first to run (errno 0),
\* whatever was resolved before it.
C10_FragmentIndependentOfOrder ==
    (Returned /\ pc # "done") => Fragment(i) = FragmentFrom(i, ENONE)

\* the resolver of the element just resolved, run again from the errno it
\* started with and under the same responses, on an empty heap: m.freed is
\* what this one invocation released, m.heap what it left allocated
LastRun == Resolve(Machine(errnos[i], {}, brk, <<>>), prompt[i], resp)

\* C11: get_hostname, when sysconf fails, returns at once without
\* allocating the hostname buffer and without releasing anything: the
\* borrowed text !NOHOSTNAMEMAX! when sysconf left errno alone (no such
\* limit), the format_error result for !SYSCONF! with its flag when sysconf
\* set errno; when sysconf and the allocation succeed and gethostname fails,
\* the buffer is released and the fragment is the format_error result for
\* !GETHOSTNAME! with its flag.
C11_HostnameFailurePaths ==
    (/\ Returned
     /\ pc # "done"
     /\ prompt[i].type \in { "HostnameUpToDot", "FullHostname" }) =>
        /\ resp.sysconf # "ok" =>
              /\ "malloc_or_error" \notin allocfail
              /\ LastRun.m.freed = <<>>
              /\ LastRun.m.heap = IF LastRun.needs_free
                                  THEN { LastRun.str.ptr.addr } ELSE {}
        /\ resp.sysconf = "unchanged" =>
              /\ ~fe_call.called
              /\ Last.str = Static("!NOHOSTNAMEMAX!")
              /\ ~Last.needs_free
        /\ resp.sysconf = "errno" =>
              /\ fe_call.called
              /\ fe_call.err_str = "!SYSCONF!"
              /\ Last.str = fe_call.str
              /\ Last.needs_free = fe_call.needs_free
        /\ (resp.sysconf = "ok" /\ resp.malloc /\ ~resp.gethostname) =>
              /\ LastRun.m.freed = << [ptr |-> HeapPtr(brk), live |-> TRUE] >>
              /\ fe_call.called
              /\ fe_call.err_str = "!GETHOSTNAME!"
              /\ Last.str = fe_call.str
              /\ Last.needs_free = fe_call.needs_free

\* C12: get_tty_basename, when isatty, ttyname, the allocation and
\* basename_r succeed, gives an owned fragment whose text is the last
\* component of the terminal's path (3 for /dev/pts/3), held in the block
\* this invocation allocated, live and never released: not the full path
\* and not the storage of ttyname.
C12_TtyBasenameInFreshBuffer ==
    (/\ Returned
     /\ pc # "done"
     /\ prompt[i].type = "TtyBasename"
     /\ resp.isatty /\ resp.ttyname /\ resp.malloc /\ resp.basename_r) =>
        LET t == Last.str.txt
        IN /\ Last.needs_free
           /\ Last.str.ptr = HeapPtr(brk - 1)
           /\ Last.str.ptr.addr \in heap
           /\ Count(freed, Last.str.ptr) = 0
           /\ t # <<>>
           /\ \A k \in 1..Len(t) : t[k] # "/"
           /\ resp.tty = SubSeq(resp.tty, 1, Len(resp.tty) - Len(t) - 1)
                            \o <<"/">> \o t
           /\ resp.tty = DevPts3 => t = <<"3">>

C12_Witness ==
    /\ Returned
    /\ pc # "done"
    /\ prompt[i].type = "TtyBasename"
    /\ resp.tty = DevPts3
    /\ Last.needs_free
    /\ Last.str.ptr.region = "heap"
    /\ Last.str.txt = <<"3">>

\* C13: for every working directory and every home get_home_dir gives, the
\* empty one and / included, the tilde loop of get_pwd_tilde ends with all
\* its reads and writes inside the PATH_MAX bytes of pwd, and leaves in pwd
\* a terminated string no longer than the directory getcwd wrote; the
\* process does not die inside the resolver.
C13_TildeLoopStaysInBuffer ==
    /\ (hd_call.called /\ hd_call.status >= 0 /\ resp.getcwd) =>
          LET Bounded(t) ==
                /\ ~t.oob
                /\ \E k \in DOMAIN t.pwd : t.pwd[k] = NUL
                /\ Len(CStr(t.pwd)) <= Len(resp.cwd)
          IN Bounded(TildeCollapse(PwdBuffer(resp.cwd), hd_call.ret.txt))
    /\ ~(pc = "crashed" /\ container # NULL /\ i < Len(prompt))

\* C14: the plain cwd resolver, for a working directory W and a non-empty
\* home H, puts ~ in place of H only when H is a prefix of W made of whole
\* components (W = H, or the character of W after H is /), and gives W
\* itself otherwise: /home/alice with home /home/al stays /home/alice.
C14_TildeOnlyAtComponentBoundary ==
    (/\ Returned
     /\ pc # "done"
     /\ prompt[i].type = "PwdTrunc"
     /\ resp.getcwd /\ resp.malloc
     /\ hd_call.called /\ hd_call.status >= 0
     /\ hd_call.ret.txt # <<>>) =>
        LET W == resp.cwd
            H == hd_call.ret.txt
        IN Last.str.txt =
              IF IsPrefix(H, W) /\ (Len(W) = Len(H) \/ W[Len(H) + 1] = "/")
              THEN <<"~">> \o SubSeq(W, Len(H) + 1, Len(W))
              ELSE W

====
